---- MODULE Spec2Model ----
(***************************************************************************)
(* Model of the Chan-theory analysis pipeline of moyan:                    *)
(*   AutoAnalyzer  (src/src/moyan/analyzer/auto_analyzer.py)               *)
(*   MoyanAnalyzer (src/src/moyan/core/analyzer.py)                        *)
(*                                                                         *)
(* Prices are integers and every ratio the code computes in floating point *)
(* is kept as an exact fraction <<numerator, denominator>>; comparisons of *)
(* ratios are done by cross multiplication.  Timestamps are counted in     *)
(* hours, timedelta.days is the floor of the difference divided by 24.     *)
(* Strings of the source are rendered in English: direction "Up"/"Down",   *)
(* fractal mark "Top"/"Bottom", "TopDivergence"/"BottomDivergence",        *)
(* "Buy1".."Buy3", "Sell1".."Sell3".  The percentage statistics of         *)
(* analyze_strokes (mean/max move) and the bar list are not kept.          *)
(***************************************************************************)
EXTENDS Integers, Sequences, FiniteSets, TLC

VARIABLES
    kline_level,   \* MoyanAnalyzer.kline_level
    auto_ref,      \* identity of the AutoAnalyzer held in MoyanAnalyzer._auto_analyzer
    heap,          \* the live AutoAnalyzer objects by identity: kline_level, c, analysis_result, pivot_zones
    cache,         \* MoyanAnalyzer._analysis_cache: cache key -> result
    config,        \* default_config.czsc, the analysis section of the global MoyanConfig
    returned,      \* the successful result of analyze a caller still holds, if any
    pending,       \* the request of the caller: the settings it passes to update_config, its stock code,
                   \* the CZSC object its data gives, and whether it has been served
    last,          \* the last call: its name, its outcome, and the CZSC object the analyzer held before it
    manager,       \* the MultiDataSourceManager: data_sources, fallback_enabled, and each source's
                   \* available flag and counters
    attempt,       \* the get_stock_data call in progress or just returned: its position in the loop over
                   \* the ordered sources, the sources it invoked, what each fetch gives, and its result
    engine,        \* the AStockSearchEngine: stock_cache, last_update, cache_ttl and the holder of its lock
    threads,       \* each thread's position in update_stock_cache and the time it read
    now,           \* what time.time() returns
    refreshed      \* the last update_stock_cache that stored fetched data, if any: the time it read,
                   \* and whether a later call has returned without fetching

analysis == <<kline_level, auto_ref, heap, cache, config, returned, pending, last>>

services == <<manager, attempt, engine, threads, now, refreshed>>

vars == <<kline_level, auto_ref, heap, cache, config, returned, pending, last,
          manager, attempt, engine, threads, now, refreshed>>

(***************************************************************************)
(* Bounds of the model                                                     *)
(***************************************************************************)
MaxStrokes == 4
MaxLongStrokes == 7
\* the number of get_stock_data calls of a run
MaxCalls == 1
\* the number of threads calling update_stock_cache
MaxThreads == 2
\* how far the clock runs: whole periods of cache_ttl, and seconds beyond a period
MaxPeriods == 2
MaxSlack == 1
PriceSet == {100, 110, 113, 120, 130}
SmallPriceSet == {100, 113, 130}
StepHours == {24, 66}

(***************************************************************************)
(* Constants of the program                                                *)
(***************************************************************************)
HoursPerDay == 24
MinSegmentStrokes == 3
MinDivergenceStrokes == 4
DecayNum == 7
DecayDen == 10
PivotNum == 1
PivotDen == 10
ProximityDays == 5

KLINE_LEVELS == {"15m", "30m", "1h", "1d", "1wk", "1mo"}
DEFAULT_KLINE_LEVEL == "1d"

get_supported_levels == KLINE_LEVELS

\* every level passes
validate_kline_level_any(level) == TRUE

validate_kline_level(level) == level \in KLINE_LEVELS

(***************************************************************************)
(* Generic helpers                                                         *)
(***************************************************************************)
None == <<>>
Some(x) == <<x>>

Abs(x) == IF x < 0 THEN -x ELSE x

Last(s) == s[Len(s)]

RECURSIVE Concat(_)
Concat(ss) == IF ss = <<>> THEN <<>> ELSE Head(ss) \o Concat(Tail(ss))

SetMin(S) == CHOOSE x \in S : \A y \in S : x <= y
SetMax(S) == CHOOSE x \in S : \A y \in S : x >= y

\* dict.get(k, default) and dict[k] = v on a dict kept as a function
Get(d, k, default) == IF k \in DOMAIN d THEN d[k] ELSE default
Put(d, k, v) == [x \in (DOMAIN d) \cup {k} |-> IF x = k THEN v ELSE d[x]]
EmptyDict == [x \in {} |-> 0]

\* (a - b).days of two timestamps given in hours
Days(delta) == delta \div HoursPerDay

(***************************************************************************)
(* Input of one analysis: what czsc.CZSC builds from the fetched bars.     *)
(* Strokes form a chain (the end fractal of one stroke is the start        *)
(* fractal of the next) and a stroke is Up exactly when its end price is   *)
(* above its start price.                                                  *)
(***************************************************************************)
Fx(mark, dt, price) == [mark |-> mark, dt |-> dt, fx |-> price]

Bi(i, step, a, b) ==
    LET up == b > a
    IN [direction |-> IF up THEN "Up" ELSE "Down",
        fx_a |-> Fx(IF up THEN "Bottom" ELSE "Top", (i - 1) * step, a),
        fx_b |-> Fx(IF up THEN "Top" ELSE "Bottom", i * step, b)]

\* price chains p[1..n+1] with p[i] # p[i+1]
RECURSIVE Chains(_, _)
Chains(prices, n) ==
    IF n = 0 THEN {<<p>> : p \in prices}
    ELSE LET ext == {Append(ch, p) : ch \in Chains(prices, n - 1), p \in prices}
         IN {ch \in ext : ch[Len(ch)] # ch[Len(ch) - 1]}

BiList(ch, step) == [i \in 1..(Len(ch) - 1) |-> Bi(i, step, ch[i], ch[i + 1])]

FxList(bi) ==
    IF bi = <<>> THEN <<>>
    ELSE <<bi[1].fx_a>> \o [i \in 1..Len(bi) |-> bi[i].fx_b]

\* czsc hands over no segments, or (older versions) its own xd_list: all
\* strokes as one segment, or a second segment begun by the last stroke
XdChoices(bi) ==
    {<<>>} \cup (IF Len(bi) >= 3
                 THEN {<<bi>>, <<SubSeq(bi, 1, Len(bi) - 1), SubSeq(bi, Len(bi), Len(bi))>>}
                 ELSE {})

CzscOf(bi, xd) == [fx_list |-> FxList(bi), bi_list |-> bi, xd_list |-> xd]

Alternating(bi) == \A i \in 1..(Len(bi) - 1) : bi[i].direction # bi[i + 1].direction

\* the inputs for which czsc hands over no segments
PlainInputsOver(prices, steps, maxn) ==
    {CzscOf(<<>>, <<>>)} \cup
    UNION { {CzscOf(BiList(ch, st), <<>>) : ch \in Chains(prices, n), st \in steps}
            : n \in 1..maxn }

InputsOver(prices, steps, maxn) ==
    {CzscOf(<<>>, <<>>)} \cup
    UNION { UNION { {CzscOf(BiList(ch, st), xd) : xd \in XdChoices(BiList(ch, st))}
                    : ch \in Chains(prices, n), st \in steps }
            : n \in 1..maxn }

\* every chain of up to MaxStrokes one-day strokes over PriceSet, and the
\* chains of up to MaxLongStrokes strokes (two segments need six strokes)
\* over SmallPriceSet with every stroke duration and segment source
StrokeInputs ==
    PlainInputsOver(PriceSet, {HoursPerDay}, MaxStrokes) \cup
    InputsOver(SmallPriceSet, StepHours, MaxLongStrokes)
\* the zigzags over SmallPriceSet that start at its highest price and fall
\* to its lowest price with every Down stroke
SmallInputs ==
    {inp \in PlainInputsOver(SmallPriceSet, {HoursPerDay}, MaxStrokes) :
        /\ Alternating(inp.bi_list)
        /\ inp.bi_list # <<>> => inp.bi_list[1].fx_a.fx = SetMax(SmallPriceSet)
        /\ \A i \in 1..Len(inp.bi_list) :
               inp.bi_list[i].direction = "Down" =>
                   inp.bi_list[i].fx_b.fx = SetMin(SmallPriceSet)}
\* no strokes, or the zigzag of MaxStrokes strokes between two prices that
\* starts at the higher one
TinyInputs ==
    {inp \in PlainInputsOver({100, 130}, {HoursPerDay}, MaxStrokes) :
        \/ inp.bi_list = <<>>
        \/ Len(inp.bi_list) = MaxStrokes /\ inp.bi_list[1].direction = "Down"}

\* what a direct call of analyze_buy_sell_points can find in self.c.fx_list,
\* analysis_result['divergences'] and analysis_result['segments']: the
\* fractals, divergences and segments of independently chosen stroke lists
ClassifierFractals == {inp.fx_list : inp \in SmallInputs}
ClassifierStrokes ==
    {BiList(ch, HoursPerDay) : ch \in {<<130, 100, 130, 100, 113, 100, 130>>,
                                        <<100, 130, 100, 130, 113, 130, 100>>}}
ClassifierSegmentInputs ==
    UNION { {CzscOf(SubSeq(bi, 1, n), xd) : n \in {0, 3, 6},
                                            xd \in {<<>>, <<SubSeq(bi, 1, 3), SubSeq(bi, 4, 4)>>}}
            : bi \in ClassifierStrokes }

\* keyword arguments a caller passes to update_config('czsc', ...): none, a
\* field of CzscConfig, or a threshold of a stage (ratios as fractions)
ConfigKwargs ==
    {EmptyDict,
     Put(EmptyDict, "min_k_num", 5),
     Put(EmptyDict, "decay_threshold", <<-7, 10>>),
     Put(EmptyDict, "overlap_ratio", <<-1, 10>>),
     Put(EmptyDict, "proximity_window_days", 0)}

\* the requests: every input with the configuration left alone, and the
\* inputs of TinyInputs after every call of update_config
Requests ==
    {[kwargs |-> EmptyDict, stock_code |-> "600000", czsc |-> inp, served |-> FALSE]
        : inp \in StrokeInputs} \cup
    {[kwargs |-> kw, stock_code |-> "600000", czsc |-> inp, served |-> FALSE]
        : kw \in ConfigKwargs, inp \in TinyInputs}

StockCodes == {"600000", "000001"}
Outcomes == {"ok", "fetch_fail", "report_fail"}
LevelInputs == {"1d", "30m", "2h"}
\* the kline_level argument of the constructor: left out, or a level
ConstructorLevels == {None} \cup {Some(level) : level \in LevelInputs}
DaysInputs == {30}

(***************************************************************************)
(* AutoAnalyzer: the analysis stages.  Each takes the analysis_result dict *)
(* of the analyzer and the CZSC object c and gives the dict it leaves.     *)
(***************************************************************************)
analyze_fractals(ar, c) ==
    LET top_fx == SelectSeq(c.fx_list, LAMBDA fx : fx.mark = "Top")
        bottom_fx == SelectSeq(c.fx_list, LAMBDA fx : fx.mark = "Bottom")
    IN Put(ar, "fractals",
           [total_count |-> Len(c.fx_list),
            top_count |-> Len(top_fx),
            bottom_count |-> Len(bottom_fx),
            top_fractals |-> top_fx,
            bottom_fractals |-> bottom_fx,
            latest_fractal |-> IF c.fx_list # <<>> THEN Some(Last(c.fx_list)) ELSE None])

\* the total is taken from the fractal list
analyze_strokes_fx_total(ar, c) ==
    LET up_strokes == SelectSeq(c.bi_list, LAMBDA bi : bi.direction = "Up")
        down_strokes == SelectSeq(c.bi_list, LAMBDA bi : bi.direction = "Down")
    IN Put(ar, "strokes",
           [total_count |-> Len(c.fx_list),
            up_count |-> Len(up_strokes),
            down_count |-> Len(down_strokes),
            up_strokes |-> up_strokes,
            down_strokes |-> down_strokes,
            latest_stroke |-> IF c.bi_list # <<>> THEN Some(Last(c.bi_list)) ELSE None])

analyze_strokes(ar, c) ==
    LET up_strokes == SelectSeq(c.bi_list, LAMBDA bi : bi.direction = "Up")
        down_strokes == SelectSeq(c.bi_list, LAMBDA bi : bi.direction = "Down")
    IN Put(ar, "strokes",
           [total_count |-> Len(c.bi_list),
            up_count |-> Len(up_strokes),
            down_count |-> Len(down_strokes),
            up_strokes |-> up_strokes,
            down_strokes |-> down_strokes,
            latest_stroke |-> IF c.bi_list # <<>> THEN Some(Last(c.bi_list)) ELSE None])

\* the fallback's test for "the current stroke starts a new segment"
SegmentEndsShort(current_segment, current_bi, prev_bi) ==
    /\ Len(current_segment) >= MinSegmentStrokes - 1
    /\ current_bi.direction # prev_bi.direction

\* the group is closed only once it holds more than 3 strokes
SegmentEndsLate(current_segment, current_bi, prev_bi) ==
    /\ Len(current_segment) > MinSegmentStrokes
    /\ current_bi.direction # prev_bi.direction

SegmentEnds(current_segment, current_bi, prev_bi) ==
    /\ Len(current_segment) >= MinSegmentStrokes
    /\ current_bi.direction # prev_bi.direction

\* "if len(current_segment) >= 3" after the loop: the last group is emitted
EmitsLastGroupLong(current_segment) == Len(current_segment) > MinSegmentStrokes

EmitsLastGroup(current_segment) == Len(current_segment) >= MinSegmentStrokes

\* the loop over bi_list[1:], i is the 1-based index of the stroke looked at
RECURSIVE SegmentLoop(_, _, _, _)
SegmentLoop(bi_list, i, segments, current_segment) ==
    IF i > Len(bi_list)
    THEN IF EmitsLastGroup(current_segment)
         THEN Append(segments, current_segment)
         ELSE segments
    ELSE LET current_bi == bi_list[i]
             prev_bi == Last(current_segment)
         IN IF SegmentEnds(current_segment, current_bi, prev_bi)
            THEN SegmentLoop(bi_list, i + 1, Append(segments, current_segment), <<current_bi>>)
            ELSE SegmentLoop(bi_list, i + 1, segments, Append(current_segment, current_bi))

FallbackSegments(bi_list) == SegmentLoop(bi_list, 2, <<>>, <<bi_list[1]>>)

\* "if not xd_list and len(self.c.bi_list) >= 3": the fallback is used
FallbackGuardNoLength(c) == c.xd_list = <<>>

FallbackGuard(c) == c.xd_list = <<>> /\ Len(c.bi_list) >= MinSegmentStrokes

\* bi_list[0] inside the fallback raises IndexError on an empty stroke list
SegmentsRaise(c) == FallbackGuard(c) /\ c.bi_list = <<>>

SegmentList(c) ==
    IF FallbackGuard(c) THEN FallbackSegments(c.bi_list) ELSE c.xd_list

analyze_segments(ar, c) ==
    LET xd_list == SegmentList(c)
    IN Put(ar, "segments",
           [total_count |-> Len(xd_list),
            segments |-> xd_list,
            xd_raw |-> xd_list])

\* (fx_b - fx_a) / fx_a for an Up stroke, (fx_a - fx_b) / fx_a for a Down stroke
Change(bi) ==
    IF bi.direction = "Up"
    THEN <<bi.fx_b.fx - bi.fx_a.fx, bi.fx_a.fx>>
    ELSE <<bi.fx_a.fx - bi.fx_b.fx, bi.fx_a.fx>>

\* the earliest stroke of the direction of stroke i, as j or 0
PrevSameDirectionEarliest(bi_list, i, j) ==
    LET same == {m \in 1..j : bi_list[m].direction = bi_list[i].direction}
    IN IF same = {} THEN 0 ELSE SetMin(same)

\* the nearest stroke before index i with the direction of stroke i, as j or 0
RECURSIVE PrevSameDirection(_, _, _)
PrevSameDirection(bi_list, i, j) ==
    IF j < 1 THEN 0
    ELSE IF bi_list[j].direction = bi_list[i].direction THEN j
    ELSE PrevSameDirection(bi_list, i, j - 1)

\* current_change < prev_change * 0.7, denominators are positive prices
IsDivergenceLoose(cur, prev) == DecayDen * cur[1] * prev[2] <= DecayNum * prev[1] * cur[2]

IsDivergence(cur, prev) == DecayDen * cur[1] * prev[2] < DecayNum * prev[1] * cur[2]

\* (prev_change - current_change) / prev_change * 100 with a positive denominator
Strength(cur, prev) ==
    LET num == 100 * (prev[1] * cur[2] - cur[1] * prev[2])
        den == cur[2] * prev[1]
    IN IF den < 0 THEN <<-num, -den>> ELSE <<num, den>>

RECURSIVE DivergenceLoop(_, _, _)
DivergenceLoop(bi_list, i, divergences) ==
    IF i > Len(bi_list) THEN divergences
    ELSE LET current_bi == bi_list[i]
             j == PrevSameDirection(bi_list, i, i - 1)
         IN IF j # 0 /\ IsDivergence(Change(current_bi), Change(bi_list[j]))
            THEN LET cur == Change(current_bi)
                     prev == Change(bi_list[j])
                 IN DivergenceLoop(bi_list, i + 1, Append(divergences,
                        [type |-> IF current_bi.direction = "Up"
                                  THEN "TopDivergence" ELSE "BottomDivergence",
                         current_bi |-> current_bi,
                         prev_bi |-> bi_list[j],
                         current_change |-> <<100 * cur[1], cur[2]>>,
                         prev_change |-> <<100 * prev[1], prev[2]>>,
                         strength |-> Strength(cur, prev)]))
            ELSE DivergenceLoop(bi_list, i + 1, divergences)

Divergences(c) ==
    IF Len(c.bi_list) >= MinDivergenceStrokes
    THEN DivergenceLoop(c.bi_list, 3, <<>>)
    ELSE <<>>

\* the list is stored only when the stroke list was long enough to be scanned
analyze_divergence_keep(ar, c) ==
    IF Len(c.bi_list) >= MinDivergenceStrokes
    THEN Put(ar, "divergences", Divergences(c))
    ELSE ar

analyze_divergence(ar, c) == Put(ar, "divergences", Divergences(c))

\* abs((fx.dt - div['current_bi'].fx_b.dt).days) <= 5
NearDivergence(fx, div) == Abs(Days(fx.dt - div.current_bi.fx_b.dt)) <= ProximityDays

Confirmed(fx, divergences, type) ==
    \E k \in 1..Len(divergences) :
        divergences[k].type = type /\ NearDivergence(fx, divergences[k])

\* the loop over fx_list, i is the 1-based index of the fractal looked at
RECURSIVE FractalPointLoop(_, _, _, _, _)
FractalPointLoop(fx_list, divergences, i, buy_points, sell_points) ==
    IF i > Len(fx_list) THEN [buy_points |-> buy_points, sell_points |-> sell_points]
    ELSE LET fx == fx_list[i]
         IN IF fx.mark = "Bottom"
            THEN FractalPointLoop(fx_list, divergences, i + 1,
                     Append(buy_points,
                         [type |-> IF Confirmed(fx, divergences, "BottomDivergence")
                                   THEN "Buy2" ELSE "Buy1",
                          date |-> fx.dt, price |-> fx.fx, fractal |-> Some(fx)]),
                     sell_points)
            ELSE IF fx.mark = "Top"
            THEN FractalPointLoop(fx_list, divergences, i + 1,
                     buy_points,
                     Append(sell_points,
                         [type |-> IF Confirmed(fx, divergences, "TopDivergence")
                                   THEN "Sell2" ELSE "Sell1",
                          date |-> fx.dt, price |-> fx.fx, fractal |-> Some(fx)]))
            ELSE FractalPointLoop(fx_list, divergences, i + 1, buy_points, sell_points)

\* "if len(segments) >= 2" and "if len(latest_segment) >= 2"
ThirdPointGuardAnyLength(segments) == Len(segments) >= 2

\* one segment is enough
ThirdPointGuardOneSegment(segments) == Len(segments) >= 1 /\ Len(Last(segments)) >= 2

ThirdPointGuard(segments) == Len(segments) >= 2 /\ Len(Last(segments)) >= 2

\* the point is put at the end of the latest segment's first stroke
ThirdPointsAtFirstStroke(pts, segments) ==
    IF ThirdPointGuard(segments)
    THEN LET latest_segment == Last(segments)
             fx_b == latest_segment[1].fx_b
         IN IF latest_segment[1].direction = "Up"
            THEN [pts EXCEPT !.buy_points = Append(@,
                     [type |-> "Buy3", date |-> fx_b.dt, price |-> fx_b.fx, fractal |-> None])]
            ELSE [pts EXCEPT !.sell_points = Append(@,
                     [type |-> "Sell3", date |-> fx_b.dt, price |-> fx_b.fx, fractal |-> None])]
    ELSE pts

\* the third-type point of the latest segment
ThirdPoints(pts, segments) ==
    IF ThirdPointGuard(segments)
    THEN LET latest_segment == Last(segments)
             fx_b == Last(latest_segment).fx_b
         IN IF latest_segment[1].direction = "Up"
            THEN [pts EXCEPT !.buy_points = Append(@,
                     [type |-> "Buy3", date |-> fx_b.dt, price |-> fx_b.fx, fractal |-> None])]
            ELSE [pts EXCEPT !.sell_points = Append(@,
                     [type |-> "Sell3", date |-> fx_b.dt, price |-> fx_b.fx, fractal |-> None])]
    ELSE pts

\* the points are appended to the lists the analyzer already holds
analyze_buy_sell_points_extend(ar, c) ==
    LET divergences == Get(ar, "divergences", <<>>)
        segments == Get(ar, "segments", [segments |-> <<>>]).segments
        pts == ThirdPoints(FractalPointLoop(c.fx_list, divergences, 1,
                                            Get(ar, "buy_points", <<>>),
                                            Get(ar, "sell_points", <<>>)), segments)
    IN Put(Put(ar, "buy_points", pts.buy_points), "sell_points", pts.sell_points)

analyze_buy_sell_points(ar, c) ==
    LET divergences == Get(ar, "divergences", <<>>)
        segments == Get(ar, "segments", [segments |-> <<>>]).segments
        pts == ThirdPoints(FractalPointLoop(c.fx_list, divergences, 1, <<>>, <<>>), segments)
    IN Put(Put(ar, "buy_points", pts.buy_points), "sell_points", pts.sell_points)

analyze_current_status(ar, c) ==
    LET n == Len(c.bi_list)
        recent_strokes == IF n >= 3 THEN SubSeq(c.bi_list, n - 2, n) ELSE c.bi_list
        up_count == Len(SelectSeq(recent_strokes, LAMBDA bi : bi.direction = "Up"))
        down_count == Len(SelectSeq(recent_strokes, LAMBDA bi : bi.direction = "Down"))
    IN Put(ar, "current_status",
           [trend_status |-> IF up_count > down_count THEN "bull"
                             ELSE IF down_count > up_count THEN "bear" ELSE "range",
            latest_fx |-> ar["fractals"].latest_fractal,
            latest_stroke |-> ar["strokes"].latest_stroke])

prepare_analysis_result(ar, c, stock_code) ==
    LET xd_count == IF c.xd_list # <<>> THEN Len(c.xd_list)
                    ELSE Get(ar, "segments", [total_count |-> 0]).total_count
    IN Put(Put(Put(Put(ar, "stock_code", stock_code),
                   "fx_count", Len(c.fx_list)),
               "bi_count", Len(c.bi_list)),
           "xd_count", xd_count)

\* _draw_pivot_zones: the zones it finds and draws
PivotOverlap(min_price, max_price) ==
    PivotDen * (max_price - min_price) < PivotNum * (max_price + min_price)

\* the end price of the third stroke is left out
WindowPricesFive(bi_list, i) ==
    {bi_list[i].fx_a.fx, bi_list[i].fx_b.fx,
     bi_list[i + 1].fx_a.fx, bi_list[i + 1].fx_b.fx,
     bi_list[i + 2].fx_a.fx}

WindowPrices(bi_list, i) ==
    {bi_list[i].fx_a.fx, bi_list[i].fx_b.fx,
     bi_list[i + 1].fx_a.fx, bi_list[i + 1].fx_b.fx,
     bi_list[i + 2].fx_a.fx, bi_list[i + 2].fx_b.fx}

RECURSIVE PivotLoop(_, _, _)
PivotLoop(bi_list, i, pivot_zones) ==
    IF i > Len(bi_list) - 2 THEN pivot_zones
    ELSE LET min_price == SetMin(WindowPrices(bi_list, i))
             max_price == SetMax(WindowPrices(bi_list, i))
         IN IF PivotOverlap(min_price, max_price)
            THEN PivotLoop(bi_list, i + 1, Append(pivot_zones,
                     [start_time |-> bi_list[i].fx_a.dt,
                      end_time |-> bi_list[i + 2].fx_b.dt,
                      high |-> max_price,
                      low |-> min_price]))
            ELSE PivotLoop(bi_list, i + 1, pivot_zones)

draw_pivot_zones(c) ==
    IF Len(c.bi_list) < 3 THEN <<>> ELSE PivotLoop(c.bi_list, 1, <<>>)

(***************************************************************************)
(* AutoAnalyzer objects and run_analysis                                   *)
(***************************************************************************)
NewAutoAnalyzer(level) ==
    [kline_level |-> IF level \in KLINE_LEVELS THEN level ELSE DEFAULT_KLINE_LEVEL,
     c |-> None,
     analysis_result |-> EmptyDict,
     pivot_zones |-> <<>>]

\* run_analysis on the analyzer object a.  self.stock_code is set at the
\* start of every run and read only by that run, so it is passed along.  inp is the CZSC object built from
\* the fetched bars; outcome says where the collaborators fail: "fetch_fail"
\* (get_stock_data or czsc_analysis gives False) or "report_fail" (writing
\* the report raises).  Gives the object as left behind, the returned
\* flag and what stopped the run ("none" when it ran to the end).
run_analysis(a, stock_code, inp, outcome) ==
    IF outcome = "fetch_fail"
       THEN [auto |-> a, ok |-> FALSE, error |-> "NoData"]
       ELSE LET c == inp
                r1 == analyze_fractals(a.analysis_result, c)
                r2 == analyze_strokes(r1, c)
            IN IF SegmentsRaise(c)
               THEN [auto |-> [a EXCEPT !.c = Some(c), !.analysis_result = r2],
                     ok |-> FALSE, error |-> "IndexError"]
               ELSE LET r3 == analyze_segments(r2, c)
                        r4 == analyze_divergence(r3, c)
                        r5 == analyze_buy_sell_points(r4, c)
                        r6 == analyze_current_status(r5, c)
                        r7 == prepare_analysis_result(r6, c, stock_code)
                        a2 == [a EXCEPT !.c = Some(c),
                                         !.analysis_result = r7,
                                         !.pivot_zones = draw_pivot_zones(c)]
                    IN IF outcome = "report_fail"
                       THEN [auto |-> a2, ok |-> FALSE, error |-> "OSError"]
                       ELSE [auto |-> a2, ok |-> TRUE, error |-> "none"]

\* CzscConfig(): the numeric fields of the section
CzscConfig == Put(Put(EmptyDict, "min_k_num", 7), "max_k_num", 1000)

\* MoyanConfig.update_config('czsc', **kwargs): a key the section has no
\* attribute for is skipped
update_config(config_obj, kwargs) ==
    [key \in DOMAIN config_obj |->
        IF key \in DOMAIN kwargs THEN kwargs[key] ELSE config_obj[key]]

\* MoyanAnalyzer.__init__: the level the analyzer starts with
MoyanLevel(kline_level_arg) ==
    LET level == IF kline_level_arg = None THEN DEFAULT_KLINE_LEVEL ELSE kline_level_arg[1]
    IN IF validate_kline_level(level) THEN level ELSE DEFAULT_KLINE_LEVEL

(***************************************************************************)
(* State                                                                   *)
(***************************************************************************)
\* no data-source manager and no search engine has been constructed
NoServices ==
    /\ manager = None
    /\ attempt = None
    /\ engine = None
    /\ threads = None
    /\ now = 0
    /\ refreshed = None

Init ==
    /\ kline_level = DEFAULT_KLINE_LEVEL
    /\ auto_ref = 1
    /\ heap = [id \in {1} |-> NewAutoAnalyzer(DEFAULT_KLINE_LEVEL)]
    /\ cache = EmptyDict
    /\ config = CzscConfig
    /\ returned = None
    /\ pending = None
    /\ last = [op |-> "init", ok |-> TRUE, error |-> "none", before |-> None]
    /\ NoServices

\* MoyanAnalyzer(kline_level = ...) has been constructed
InitAnalyzer ==
    /\ \E kline_level_arg \in ConstructorLevels :
           /\ kline_level = MoyanLevel(kline_level_arg)
           /\ heap = [id \in {1} |-> NewAutoAnalyzer(MoyanLevel(kline_level_arg))]
    /\ auto_ref = 1
    /\ cache = EmptyDict
    /\ config = CzscConfig
    /\ returned = None
    /\ pending = None
    /\ last = [op |-> "init", ok |-> TRUE, error |-> "none", before |-> None]
    /\ NoServices

\* a request is waiting, with the CZSC object the collaborators will build for it
InitPending ==
    /\ kline_level = DEFAULT_KLINE_LEVEL
    /\ auto_ref = 1
    /\ heap = [id \in {1} |-> NewAutoAnalyzer(DEFAULT_KLINE_LEVEL)]
    /\ cache = EmptyDict
    /\ config = CzscConfig
    /\ returned = None
    /\ pending \in {Some(request) : request \in Requests}
    /\ last = [op |-> "init", ok |-> TRUE, error |-> "none", before |-> None]
    /\ NoServices

\* an analyzer whose c and analysis_result the caller has set, about to be
\* asked for its buy and sell points
InitClassifier ==
    /\ kline_level = DEFAULT_KLINE_LEVEL
    /\ auto_ref = 1
    /\ \E fx_list \in ClassifierFractals, dinp \in SmallInputs, sinp \in ClassifierSegmentInputs :
           heap = [id \in {1} |->
                      [NewAutoAnalyzer(DEFAULT_KLINE_LEVEL) EXCEPT
                           !.c = Some([fx_list |-> fx_list, bi_list |-> <<>>, xd_list |-> <<>>]),
                           !.analysis_result =
                               analyze_segments(analyze_divergence(EmptyDict, dinp), sinp)]]
    /\ cache = EmptyDict
    /\ config = CzscConfig
    /\ returned = None
    /\ pending = None
    /\ last = [op |-> "init", ok |-> TRUE, error |-> "none", before |-> None]
    /\ NoServices

Auto == heap[auto_ref]

\* AutoAnalyzer.analyze_buy_sell_points called directly, once
ClassifyCall ==
    /\ last.op = "init"
    /\ heap' = [heap EXCEPT ![auto_ref].analysis_result =
                     analyze_buy_sell_points(Auto.analysis_result, Auto.c[1])]
    /\ last' = [op |-> "analyze_buy_sell_points", ok |-> TRUE, error |-> "none",
                before |-> None]
    /\ UNCHANGED <<kline_level, auto_ref, cache, returned, pending, config, services>>

\* AutoAnalyzer.run_analysis called on the analyzer in use
RunAnalysis(stock_code, inp, outcome) ==
    \E run \in {run_analysis(Auto, stock_code, inp, outcome)} :
       /\ heap' = [heap EXCEPT ![auto_ref] = run.auto]
       /\ last' = [op |-> "run_analysis", ok |-> run.ok, error |-> run.error,
                   before |-> Auto.c]
       /\ UNCHANGED <<kline_level, auto_ref, cache, returned, services>>

\* the caller passes its settings to default_config.update_config and
\* runs the analysis
ServePending ==
    /\ pending # None
    /\ ~pending[1].served
    /\ config' = update_config(config, pending[1].kwargs)
    /\ \E outcome \in Outcomes :
           RunAnalysis(pending[1].stock_code, pending[1].czsc, outcome)
    /\ pending' = Some([pending[1] EXCEPT !.served = TRUE])

Rerun ==
    /\ \E stock_code \in StockCodes, inp \in SmallInputs, outcome \in Outcomes :
           RunAnalysis(stock_code, inp, outcome)
    /\ UNCHANGED <<config, pending>>

(***************************************************************************)
(* MoyanAnalyzer                                                           *)
(***************************************************************************)
\* f"{stock_code}_{self.kline_level}_{start_date}_{end_date}_{days}"; the
\* requests of the model leave start_date and end_date at None
CacheKey(stock_code, level, days) == <<stock_code, level, "None", "None", days>>

\* the analysis_result dict a result's 'data' entry refers to
DataOf(result) == heap[result.data[1]].analysis_result

\* the objects still referenced: the analyzer in use and the one whose
\* analysis_result the held result refers to; the others are collected
Live(h, ref, held) ==
    [id \in {ref} \cup (IF held = None THEN {} ELSE {held[1].data[1]}) |-> h[id]]

\* the caller of analyze keeps the result it gets, or the one it held
Keep(result) == {returned, Some(result)}

\* "if not force_refresh and cache_key in self._analysis_cache"
CacheHitIgnoringForce(force_refresh, cache_key) == cache_key \in DOMAIN cache

CacheHit(force_refresh, cache_key) == ~force_refresh /\ cache_key \in DOMAIN cache

\* the cache after the pipeline has run: every result is stored
CacheAfterRunAlways(cache_key, result) == Put(cache, cache_key, result)

\* the cache after the pipeline has run: only the result of a success is stored
CacheAfterRun(cache_key, result) ==
    IF result.success THEN Put(cache, cache_key, result) ELSE cache

Analyze(stock_code, days, force_refresh, inp, outcome) ==
    LET cache_key == CacheKey(stock_code, kline_level, days)
        request == [stock_code |-> stock_code, days |-> days, force_refresh |-> force_refresh]
    IN IF CacheHit(force_refresh, cache_key)
       THEN /\ returned' \in Keep(cache[cache_key])
            /\ heap' = Live(heap, auto_ref, returned')
            /\ last' = [op |-> "analyze", ok |-> TRUE, error |-> "none", before |-> None,
                        hit |-> TRUE, request |-> request, result |-> cache[cache_key]]
            /\ UNCHANGED <<kline_level, auto_ref, cache, pending, config, services>>
       ELSE \E run \in {run_analysis(Auto, stock_code, inp, outcome)} :
            LET result == IF run.ok
                          THEN [stock_code |-> stock_code,
                                kline_level |-> kline_level,
                                success |-> TRUE,
                                data |-> Some(auto_ref)]
                          ELSE [stock_code |-> stock_code,
                                kline_level |-> kline_level,
                                success |-> FALSE,
                                data |-> None]
            IN /\ cache' = CacheAfterRun(cache_key, result)
               /\ IF run.ok
                  THEN returned' \in Keep(result)
                  ELSE UNCHANGED returned
               /\ heap' = Live([heap EXCEPT ![auto_ref] = run.auto], auto_ref, returned')
               /\ last' = [op |-> "analyze", ok |-> run.ok, error |-> run.error,
                           before |-> None, hit |-> FALSE, request |-> request,
                           result |-> result]
               /\ UNCHANGED <<kline_level, auto_ref, pending, config, services>>

AnalyzeCall ==
    \E stock_code \in StockCodes, days \in DaysInputs, force_refresh \in BOOLEAN,
       inp \in TinyInputs, outcome \in Outcomes :
        Analyze(stock_code, days, force_refresh, inp, outcome)

\* the identity of a newly created object: one no live object has
NewRef(held) ==
    LET used == IF held = None THEN {} ELSE {held[1].data[1]}
    IN SetMin({id \in 1..(Cardinality(used) + 1) : id \notin used})

\* the cache is kept when the level changes
SwitchKlineLevelKeepCache(new_level) ==
    IF ~validate_kline_level(new_level)
    THEN /\ last' = [op |-> "switch_kline_level", ok |-> FALSE, error |-> "ValueError",
                     before |-> None, new_level |-> new_level]
         /\ UNCHANGED <<kline_level, auto_ref, heap, cache, returned, pending, config, services>>
    ELSE IF new_level # kline_level
    THEN /\ kline_level' = new_level
         /\ auto_ref' = NewRef(returned)
         /\ heap' = Live([id \in (DOMAIN heap) \cup {auto_ref'} |->
                             IF id = auto_ref' THEN NewAutoAnalyzer(new_level) ELSE heap[id]],
                         auto_ref', returned)
         /\ last' = [op |-> "switch_kline_level", ok |-> TRUE, error |-> "none",
                     before |-> None, new_level |-> new_level]
         /\ UNCHANGED <<cache, returned, pending, config, services>>
    ELSE /\ last' = [op |-> "switch_kline_level", ok |-> TRUE, error |-> "none",
                     before |-> None, new_level |-> new_level]
         /\ UNCHANGED <<kline_level, auto_ref, heap, cache, returned, pending, config, services>>

SwitchKlineLevel(new_level) ==
    IF ~validate_kline_level(new_level)
    THEN /\ last' = [op |-> "switch_kline_level", ok |-> FALSE, error |-> "ValueError",
                     before |-> None, new_level |-> new_level]
         /\ UNCHANGED <<kline_level, auto_ref, heap, cache, returned, pending, config, services>>
    ELSE IF new_level # kline_level
    THEN /\ kline_level' = new_level
         /\ auto_ref' = NewRef(returned)
         /\ heap' = Live([id \in (DOMAIN heap) \cup {auto_ref'} |->
                             IF id = auto_ref' THEN NewAutoAnalyzer(new_level) ELSE heap[id]],
                         auto_ref', returned)
         /\ cache' = EmptyDict
         /\ last' = [op |-> "switch_kline_level", ok |-> TRUE, error |-> "none",
                     before |-> None, new_level |-> new_level]
         /\ UNCHANGED <<returned, pending, config, services>>
    ELSE /\ last' = [op |-> "switch_kline_level", ok |-> TRUE, error |-> "none",
                     before |-> None, new_level |-> new_level]
         /\ UNCHANGED <<kline_level, auto_ref, heap, cache, returned, pending, config, services>>

SwitchCall == \E new_level \in LevelInputs : SwitchKlineLevel(new_level)

ClearCache ==
    /\ cache' = EmptyDict
    /\ last' = [op |-> "clear_cache", ok |-> TRUE, error |-> "none", before |-> None]
    /\ UNCHANGED <<kline_level, auto_ref, heap, returned, pending, config, services>>

(***************************************************************************)
(* MultiDataSourceManager (core/enhanced_data_source.py)                   *)
(***************************************************************************)
\* the priority each data source class passes to DataSourceBase.__init__
SourcePriority ==
    [name \in {"akshare", "sina", "baostock", "tushare", "eastmoney", "yfinance"} |->
        CASE name = "akshare" -> 1
          [] name = "sina" -> 1
          [] name = "baostock" -> 2
          [] name = "yfinance" -> 3
          [] name = "eastmoney" -> 4
          [] name = "tushare" -> 5]

SourceNames == DOMAIN SourcePriority

\* source_priority.get(ds.name, 99) of the daily branch
DailyPriority ==
    [name \in SourceNames |->
        CASE name = "sina" -> 1
          [] name = "akshare" -> 2
          [] name = "baostock" -> 3
          [] name = "yfinance" -> 4
          [] name = "eastmoney" -> 5
          [] OTHER -> 99]

MinuteLevels == {"15m", "30m", "1h", "5m", "2m", "1m"}

MinuteSourceNames == {"sina", "baostock", "eastmoney", "yfinance"}

\* the levels a caller asks for: one of each branch of the ordering
RequestLevels == {"30m", "1d", "1wk"}

\* the sets of sources whose library imports: all, none, or some
InstalledChoices == {SourceNames, {}, {"akshare", "baostock", "yfinance"}, {"eastmoney", "tushare"}}

\* the sets of sources whose fetch gives rows: none, or some
YieldChoices == {{}, {"sina"}, {"baostock", "eastmoney"}, {"akshare", "yfinance"}, {"tushare"}}

\* what a fetch that gives no rows does: returns None, returns an empty frame, raises
FailureKinds == {"none", "empty", "raise"}

Rows == <<"row">>

\* list.sort(key=...) and sorted(..., key=...): stable
RECURSIVE SortedBy(_, _)
SortedBy(seq, key) ==
    IF seq = <<>> THEN <<>>
    ELSE LET rest == SortedBy(SubSeq(seq, 1, Len(seq) - 1), key)
             x == Last(seq)
             after == {i \in 1..Len(rest) : key[rest[i]] <= key[x]}
             at == IF after = {} THEN 0 ELSE SetMax(after)
         IN  SubSeq(rest, 1, at) \o <<x>> \o SubSeq(rest, at + 1, Len(rest))

Member(seq) == {seq[i] : i \in 1..Len(seq)}

_init_data_sources(tushare_token) ==
    IF tushare_token
    THEN <<"akshare", "sina", "baostock", "tushare", "eastmoney", "yfinance">>
    ELSE <<"akshare", "sina", "baostock", "eastmoney", "yfinance">>

NewStats == [success_count |-> 0, error_count |-> 0, last_error |-> None]

\* MultiDataSourceManager(config): the sources sorted by priority, each one's
\* availability checked once
NewManager(fallback_enabled, tushare_token, installed) ==
    LET data_sources == SortedBy(_init_data_sources(tushare_token), SourcePriority)
    IN  [data_sources |-> data_sources,
         fallback_enabled |-> fallback_enabled,
         available |-> [name \in SourceNames |-> name \in Member(data_sources) /\ name \in installed],
         stats |-> [name \in SourceNames |-> NewStats]]

_get_ordered_sources_by_kline_level(mgr, level) ==
    IF level \in MinuteLevels
    THEN LET minute_sources == SelectSeq(mgr.data_sources, LAMBDA name : name \in MinuteSourceNames)
             other_sources == SelectSeq(mgr.data_sources, LAMBDA name : name \notin MinuteSourceNames)
         IN  SortedBy(minute_sources, SourcePriority) \o other_sources
    ELSE IF level \in {"1d"}
    THEN SortedBy(SelectSeq(mgr.data_sources, LAMBDA name : mgr.available[name]), DailyPriority)
    ELSE SortedBy(mgr.data_sources, SourcePriority)

\* what _fetch_data of a source does in this attempt
Fetch(name, env) ==
    IF name \in env.yields THEN [raised |-> FALSE, value |-> Some(Rows)]
    ELSE IF env.failure = "raise" THEN [raised |-> TRUE, value |-> None]
    ELSE IF env.failure = "empty" THEN [raised |-> FALSE, value |-> Some(<<>>)]
    ELSE [raised |-> FALSE, value |-> None]

\* data is not None and len(data) > 0
HasData(data) == data # None /\ Len(data[1]) > 0

\* DataSourceBase.get_data of an available source: the data it returns and
\* the source's counters afterwards
get_data(stat, fetched) ==
    IF ~fetched.raised /\ HasData(fetched.value)
    THEN [data |-> fetched.value,
          stat |-> [stat EXCEPT !.success_count = @ + 1, !.last_error = None]]
    ELSE [data |-> None,
          stat |-> [stat EXCEPT !.error_count = @ + 1,
                                !.last_error = Some(IF fetched.raised THEN "exception" ELSE "no data")]]

\* the loop goes on to the next source after a source without data
StopsAfterFailureNever(fallback_enabled) == FALSE

\* if not self.fallback_enabled: break
StopsAfterFailure(fallback_enabled) == ~fallback_enabled

InitManager ==
    /\ \E fallback_enabled \in BOOLEAN, tushare_token \in BOOLEAN, installed \in InstalledChoices :
           manager = NewManager(fallback_enabled, tushare_token, installed)
    /\ attempt = [pc |-> "idle", calls |-> 0]
    /\ engine = None
    /\ threads = None
    /\ now = 0
    /\ refreshed = None
    /\ kline_level = None
    /\ auto_ref = None
    /\ heap = None
    /\ cache = None
    /\ config = None
    /\ returned = None
    /\ pending = None
    /\ last = None

\* get_stock_data up to the loop: the ordered sources of the level
GetStockData(level, env) ==
    /\ attempt.pc \in {"idle", "done"}
    /\ attempt.calls < MaxCalls
    /\ attempt' = [pc |-> "loop", calls |-> attempt.calls + 1, kline_level |-> level, env |-> env,
                ordered |-> _get_ordered_sources_by_kline_level(manager, level),
                i |-> 1, skipped |-> {}, invoked |-> <<>>, result |-> None]
    /\ UNCHANGED <<manager, engine, threads, now, refreshed, analysis>>

GetStockDataCall ==
    \E level \in RequestLevels, yields \in YieldChoices, failure \in FailureKinds,
       installed \in {{}, SourceNames} :
        GetStockData(level, [yields |-> yields, failure |-> failure, installed |-> installed])

\* one pass of the loop over the ordered sources
TrySource ==
    /\ attempt.pc = "loop"
    /\ attempt.i <= Len(attempt.ordered)
    /\ LET name == attempt.ordered[attempt.i]
           is_available == manager.available[name] \/ name \in attempt.env.installed
           got == get_data(manager.stats[name], Fetch(name, attempt.env))
       IN  IF ~is_available
           THEN /\ attempt' = [attempt EXCEPT !.i = @ + 1, !.skipped = @ \cup {name}]
                /\ UNCHANGED manager
           ELSE /\ manager' = [manager EXCEPT !.available[name] = TRUE, !.stats[name] = got.stat]
                /\ attempt' = IF HasData(got.data)
                           THEN [attempt EXCEPT !.pc = "done", !.invoked = Append(@, name),
                                             !.result = Some([data |-> got.data, name |-> name])]
                           ELSE IF StopsAfterFailure(manager.fallback_enabled)
                           THEN [attempt EXCEPT !.pc = "exit", !.invoked = Append(@, name)]
                           ELSE [attempt EXCEPT !.i = @ + 1, !.invoked = Append(@, name)]
    /\ UNCHANGED <<engine, threads, now, refreshed, analysis>>

\* the loop is over without data: return None, "none"
ReturnNone ==
    /\ \/ attempt.pc = "exit"
       \/ attempt.pc = "loop" /\ attempt.i > Len(attempt.ordered)
    /\ attempt' = [attempt EXCEPT !.pc = "done", !.result = Some([data |-> None, name |-> "none"])]
    /\ UNCHANGED <<manager, engine, threads, now, refreshed, analysis>>

NextManager == GetStockDataCall \/ TrySource \/ ReturnNone

SpecManager == InitManager /\ [][NextManager]_vars

(***************************************************************************)
(* AStockSearchEngine (config/stock_search.py)                             *)
(***************************************************************************)
\* self.cache_ttl, in seconds
cache_ttl == 86400

\* time.time() when the engine is constructed
StartTime == 1000000

\* the times the clock shows: whole periods of cache_ttl after the start,
\* and up to MaxSlack seconds more
Times == {StartTime + k * cache_ttl + j : k \in 0..MaxPeriods, j \in 0..MaxSlack}

Threads == 1..MaxThreads

\* what _fetch_all_stocks returns: no stocks, or one of two tables
FetchResults ==
    {EmptyDict,
     [code \in {"600000"} |-> "first table"],
     [code \in {"600000", "000001"} |-> "second table"]}

\* dict.update(new)
dict_update(d, new) ==
    [code \in (DOMAIN d) \cup (DOMAIN new) |-> IF code \in DOMAIN new THEN new[code] ELSE d[code]]

\* if new_data:
Truthy(d) == DOMAIN d # {}

\* the cache is refreshed again when exactly cache_ttl seconds have passed
ExpiredAtTtl(current_time, last_update, ttl) == current_time - last_update >= ttl

\* current_time - self.last_update > self.cache_ttl
Expired(current_time, last_update, ttl) == current_time - last_update > ttl

NewEngine == [stock_cache |-> EmptyDict, last_update |-> 0, cache_ttl |-> cache_ttl, lock |-> None]

\* a thread outside update_stock_cache
Outside == [pc |-> "idle", current_time |-> None, new_data |-> None]

InitEngine ==
    /\ engine = NewEngine
    /\ threads = [t \in Threads |-> Outside]
    /\ now = StartTime
    /\ refreshed = None
    /\ manager = None
    /\ attempt = None
    /\ kline_level = None
    /\ auto_ref = None
    /\ heap = None
    /\ cache = None
    /\ config = None
    /\ returned = None
    /\ pending = None
    /\ last = None

\* a thread calls update_stock_cache
Enter(t) ==
    /\ threads[t].pc = "idle"
    /\ threads' = [threads EXCEPT ![t].pc = "waiting"]
    /\ UNCHANGED <<engine, now, refreshed, manager, attempt, analysis>>

\* with self.lock: the thread gets the lock once no thread holds it
Acquire(t) ==
    /\ threads[t].pc = "waiting"
    /\ engine.lock = None
    /\ engine' = [engine EXCEPT !.lock = Some(t)]
    /\ threads' = [threads EXCEPT ![t].pc = "locked"]
    /\ UNCHANGED <<now, refreshed, manager, attempt, analysis>>

\* current_time = time.time() and the TTL test: on to the fetch, or out of
\* the with block and back to the caller
Check(t) ==
    /\ threads[t].pc = "locked"
    /\ IF Expired(now, engine.last_update, engine.cache_ttl)
       THEN /\ threads' = [threads EXCEPT ![t].pc = "fetching", ![t].current_time = Some(now)]
            /\ UNCHANGED engine
            /\ UNCHANGED refreshed
       ELSE /\ threads' = [threads EXCEPT ![t] = Outside]
            /\ engine' = [engine EXCEPT !.lock = None]
            /\ refreshed' = IF refreshed = None THEN None
                            ELSE Some([refreshed[1] EXCEPT !.kept = TRUE])
    /\ UNCHANGED <<now, manager, attempt, analysis>>

\* new_data = self._fetch_all_stocks()
FetchReturn(t, new_data) ==
    /\ threads[t].pc = "fetching"
    /\ threads' = [threads EXCEPT ![t].pc = "fetched", ![t].new_data = Some(new_data)]
    /\ UNCHANGED <<engine, now, refreshed, manager, attempt, analysis>>

\* if new_data: update the cache and last_update; then out of the with block
Update(t) ==
    /\ threads[t].pc = "fetched"
    /\ LET new_data == threads[t].new_data[1]
           current_time == threads[t].current_time[1]
       IN  IF Truthy(new_data)
           THEN /\ engine' = [engine EXCEPT !.stock_cache = dict_update(@, new_data),
                                            !.last_update = current_time,
                                            !.lock = None]
                /\ refreshed' = Some([read |-> current_time, kept |-> FALSE])
           ELSE /\ engine' = [engine EXCEPT !.lock = None]
                /\ UNCHANGED refreshed
    /\ threads' = [threads EXCEPT ![t] = Outside]
    /\ UNCHANGED <<now, manager, attempt, analysis>>

\* time passes
Tick ==
    /\ \E later \in Times : later > now /\ now' = later
    /\ UNCHANGED <<engine, threads, refreshed, manager, attempt, analysis>>

NextEngine ==
    \/ \E t \in Threads : Enter(t)
    \/ \E t \in Threads : Acquire(t)
    \/ \E t \in Threads : Check(t)
    \/ \E t \in Threads, new_data \in FetchResults : FetchReturn(t, new_data)
    \/ \E t \in Threads : Update(t)
    \/ Tick

SpecEngine == InitEngine /\ [][NextEngine]_vars

Next == ServePending

Spec == InitPending /\ [][Next]_vars

NextRerun == Rerun

SpecRerun == Init /\ [][NextRerun]_vars

NextAnalyzer == AnalyzeCall \/ SwitchCall \/ ClearCache

SpecAnalyzer == InitAnalyzer /\ [][NextAnalyzer]_vars

NextClassifier == ClassifyCall

SpecClassifier == InitClassifier /\ [][NextClassifier]_vars

\* the last call ran the analysis stages (Reached) to their end (Completed)
Reached == last.op = "run_analysis" /\ last.error # "NoData"
Completed == Reached /\ last.error \in {"none", "OSError"}
Stored == Auto.analysis_result
Input == Auto.c[1]
StoredSegments == Get(Stored, "segments", [segments |-> <<>>]).segments
StoredDivergences == Get(Stored, "divergences", <<>>)

(***************************************************************************)
(* Properties                                                              *)
(***************************************************************************)

\* C1: the segments of the fallback builder are runs of strokes in input
\* order whose concatenation is a prefix of the stroke list (so they are
\* contiguous from stroke 0 and share no stroke), each of at least 3 strokes.
C1_SegmentsPartitionPrefix ==
    (Completed /\ Input.xd_list = <<>>) =>
        /\ \A k \in 1..Len(StoredSegments) : Len(StoredSegments[k]) >= 3
        /\ \E m \in 0..Len(Input.bi_list) :
               Concat(StoredSegments) = SubSeq(Input.bi_list, 1, m)

\* two segments were built from strokes that do not all alternate
C1_Witness ==
    /\ Completed /\ Input.xd_list = <<>>
    /\ Len(StoredSegments) = 2
    /\ ~Alternating(Input.bi_list)

\* index of the stroke at which a drawn pivot zone starts
PivotStart(zone) ==
    CHOOSE i \in 1..Len(Input.bi_list) : Input.bi_list[i].fx_a.dt = zone.start_time

\* C2: every emitted pivot zone has (high - low) <= 0.10 * center, where
\* center = (high + low) / 2.
C2_PivotWithinOverlapRatio ==
    Completed =>
        \A k \in 1..Len(Auto.pivot_zones) :
            LET zone == Auto.pivot_zones[k]
            IN 2 * PivotDen * (zone.high - zone.low) <= PivotNum * (zone.high + zone.low)

\* C3: every emitted divergence has strength > (1 - 0.7) * 100 = 30.
C3_StrengthAboveBound ==
    Completed =>
        \A k \in 1..Len(StoredDivergences) :
            LET strength == StoredDivergences[k].strength
            IN /\ strength[2] > 0
               /\ DecayDen * strength[1] > (DecayDen - DecayNum) * 100 * strength[2]

\* a top and a bottom divergence were emitted, one of them weaker than 50
C3_Witness ==
    /\ Completed
    /\ \E k \in 1..Len(StoredDivergences) : StoredDivergences[k].type = "TopDivergence"
    /\ \E k \in 1..Len(StoredDivergences) :
           /\ StoredDivergences[k].type = "BottomDivergence"
           /\ StoredDivergences[k].strength[1] < 50 * StoredDivergences[k].strength[2]

\* the first- and second-type points among the stored buy points
FractalBuyPoints ==
    SelectSeq(Get(Stored, "buy_points", <<>>), LAMBDA bp : bp.type \in {"Buy1", "Buy2"})

\* a divergence of the given type ends within 5 days (120 hours) of fx
WithinWindow(fx, type) ==
    \E k \in 1..Len(StoredDivergences) :
        /\ StoredDivergences[k].type = type
        /\ Abs(fx.dt - StoredDivergences[k].current_bi.fx_b.dt) <= ProximityDays * HoursPerDay

\* C4: every Bottom fractal has exactly one buy point at its timestamp and
\* price, which is Buy2 iff a BottomDivergence ends within 5 days of the
\* fractal and Buy1 otherwise.
C4_BottomFractalClassified ==
    Completed =>
        LET bottoms == SelectSeq(Input.fx_list, LAMBDA fx : fx.mark = "Bottom")
        IN /\ Len(FractalBuyPoints) = Len(bottoms)
           /\ \A k \in 1..Len(bottoms) :
                  /\ FractalBuyPoints[k].date = bottoms[k].dt
                  /\ FractalBuyPoints[k].price = bottoms[k].fx
                  /\ FractalBuyPoints[k].type =
                         IF WithinWindow(bottoms[k], "BottomDivergence") THEN "Buy2" ELSE "Buy1"

\* C5: a successful result handed to a caller never changes: no later call
\* changes the data it holds, and the result a cache hit returns holds the
\* data of the stock it was cached for.
C5_ReturnedResultImmutable ==
    [][ /\ (returned # None /\ returned' = returned) =>
               heap'[returned[1].data[1]].analysis_result = DataOf(returned[1])
        /\ (last'.op = "analyze" /\ last'.hit /\ returned' # None) =>
               heap'[returned'[1].data[1]].analysis_result["stock_code"]
                   = returned'[1].stock_code
      ]_vars

\* the stages applied to an analyzer that has analysed nothing before
FreshResult(c, stock_code) ==
    prepare_analysis_result(
        analyze_current_status(
            analyze_buy_sell_points(
                analyze_divergence(
                    analyze_segments(
                        analyze_strokes(
                            analyze_fractals(EmptyDict, c), c), c), c), c), c), c, stock_code)

Collections(ar) ==
    [segments |-> Get(ar, "segments", [segments |-> <<>>]).segments,
     divergences |-> Get(ar, "divergences", <<>>),
     buy_points |-> Get(ar, "buy_points", <<>>),
     sell_points |-> Get(ar, "sell_points", <<>>),
     fx_count |-> Get(ar, "fx_count", 0),
     bi_count |-> Get(ar, "bi_count", 0),
     xd_count |-> Get(ar, "xd_count", 0)]

\* C6: what a completed run stores depends on its input alone: it equals what
\* the stages give on an analyzer without any earlier run.
C6_RunIndependentOfHistory ==
    Completed =>
        Collections(Stored) = Collections(FreshResult(Input, Stored["stock_code"]))

\* a run on fewer than 4 strokes completed on an analyzer that held
\* divergences and segments of an earlier, different input
C6_Witness ==
    /\ Completed
    /\ last.before # None
    /\ last.before[1] # Input
    /\ Divergences(last.before[1]) # <<>>
    /\ SegmentList(last.before[1]) # <<>>
    /\ Len(Input.bi_list) < MinDivergenceStrokes
    /\ StoredDivergences = <<>>

\* the divergences stored for the stroke at index i
SignalsOf(i) ==
    SelectSeq(StoredDivergences, LAMBDA d : d.current_bi = Input.bi_list[i])

\* C7: in a sequence of at least 3 strokes, every stroke at (0-based) index
\* >= 2 with a same-direction predecessor gets exactly one signal if its
\* amplitude is below 0.7 times the reference amplitude and none otherwise,
\* a TopDivergence for an Up stroke and a BottomDivergence for a Down stroke.
C7_OneSignalPerDecayedStroke ==
    (Completed /\ Len(Input.bi_list) >= 3) =>
        \A i \in 3..Len(Input.bi_list) :
            LET j == PrevSameDirection(Input.bi_list, i, i - 1)
            IN j # 0 =>
                  IF DecayDen * Change(Input.bi_list[i])[1] * Change(Input.bi_list[j])[2]
                         < DecayNum * Change(Input.bi_list[j])[1] * Change(Input.bi_list[i])[2]
                  THEN /\ Len(SignalsOf(i)) = 1
                       /\ SignalsOf(i)[1].type =
                              IF Input.bi_list[i].direction = "Up"
                              THEN "TopDivergence" ELSE "BottomDivergence"
                  ELSE SignalsOf(i) = <<>>

\* C8: the start indices of any two emitted pivots differ by at least 3.
C8_PivotsShareNoStroke ==
    Completed =>
        \A k, l \in 1..Len(Auto.pivot_zones) :
            k # l => Abs(PivotStart(Auto.pivot_zones[k]) - PivotStart(Auto.pivot_zones[l])) >= 3

\* C9: on a stroke sequence with two consecutive strokes of one direction
\* the segment builder fails with InvalidSequenceError and nothing of the
\* request is stored.
C9_MalformedSequenceRejected ==
    (Reached /\ ~Alternating(Input.bi_list)) =>
        /\ last.error = "InvalidSequenceError"
        /\ ~last.ok
        /\ "segments" \notin DOMAIN Stored

\* C10: with fewer than 3 strokes no stage raises, and the segments, the
\* pivot zones and the divergences are empty.
C10_ShortInputGivesEmpty ==
    (Reached /\ Len(Input.bi_list) < 3) =>
        /\ Completed
        /\ "segments" \in DOMAIN Stored /\ StoredSegments = <<>>
        /\ Auto.pivot_zones = <<>>
        /\ "divergences" \in DOMAIN Stored /\ StoredDivergences = <<>>

\* a run on two strokes completed
C10_Witness ==
    /\ Completed
    /\ Len(Input.bi_list) = 2
    /\ Stored["strokes"].total_count = 2

StoredBuyPoints == Get(Stored, "buy_points", <<>>)
StoredSellPoints == Get(Stored, "sell_points", <<>>)

\* the third-type points among the stored buy and sell points
ThirdBuyPoints == SelectSeq(StoredBuyPoints, LAMBDA bp : bp.type = "Buy3")
ThirdSellPoints == SelectSeq(StoredSellPoints, LAMBDA sp : sp.type = "Sell3")

\* C11: a third-type point is emitted iff there are at least 2 segments and
\* the latest has at least 2 strokes; it is a Buy3 when the first stroke of
\* the latest segment is Up and a Sell3 when it is Down, dated and priced at
\* the end fractal of the latest segment's last stroke.
C11_ThirdPointOfLatestSegment ==
    Completed =>
        IF Len(StoredSegments) >= 2 /\ Len(Last(StoredSegments)) >= 2
        THEN LET latest == Last(StoredSegments)
                 at == [date |-> Last(latest).fx_b.dt, price |-> Last(latest).fx_b.fx]
                 where(pts) == [k \in 1..Len(pts) |-> [date |-> pts[k].date, price |-> pts[k].price]]
             IN IF latest[1].direction = "Up"
                THEN where(ThirdBuyPoints) = <<at>> /\ ThirdSellPoints = <<>>
                ELSE where(ThirdSellPoints) = <<at>> /\ ThirdBuyPoints = <<>>
        ELSE ThirdBuyPoints = <<>> /\ ThirdSellPoints = <<>>

\* a Buy3 was emitted for two segments the fallback built
C11_Witness ==
    /\ Completed /\ Input.xd_list = <<>>
    /\ Len(StoredSegments) = 2
    /\ Len(ThirdBuyPoints) = 1

\* two segments, the latest of a single stroke, gave no third-type point
C11_WitnessShortLatest ==
    /\ Completed
    /\ Len(StoredSegments) = 2 /\ Len(Last(StoredSegments)) = 1
    /\ ThirdBuyPoints = <<>> /\ ThirdSellPoints = <<>>

\* the first- and second-type points among the stored sell points
FractalSellPoints ==
    SelectSeq(StoredSellPoints, LAMBDA sp : sp.type \in {"Sell1", "Sell2"})

\* C12: every Top fractal has exactly one sell point at its timestamp and
\* price, which is Sell2 iff a TopDivergence ends within 5 days of the
\* fractal and Sell1 otherwise (a BottomDivergence does not count).
C12_TopFractalClassified ==
    Completed =>
        LET tops == SelectSeq(Input.fx_list, LAMBDA fx : fx.mark = "Top")
        IN /\ Len(FractalSellPoints) = Len(tops)
           /\ \A k \in 1..Len(tops) :
                  /\ FractalSellPoints[k].date = tops[k].dt
                  /\ FractalSellPoints[k].price = tops[k].fx
                  /\ FractalSellPoints[k].type =
                         IF WithinWindow(tops[k], "TopDivergence") THEN "Sell2" ELSE "Sell1"

\* the same for inputs whose timestamps are whole days apart
C12_TopFractalClassifiedWholeDays ==
    (Completed /\ \A k \in 1..Len(Input.fx_list) : Input.fx_list[k].dt % HoursPerDay = 0) =>
        C12_TopFractalClassified

Classified == last.op = "analyze_buy_sell_points"

Covered == Len(Concat(StoredSegments))

\* C14: the strokes the fallback builder leaves out of every segment are the
\* last 0, 1 or 2 strokes of the input: the segments cover the strokes
\* before them without a gap, and a trailing group of 3 or more strokes is
\* never left out.
C14_UncoveredStrokesAreShortSuffix ==
    (Completed /\ Input.xd_list = <<>>) =>
        /\ Covered <= Len(Input.bi_list)
        /\ Len(Input.bi_list) - Covered <= 2
        /\ Concat(StoredSegments) = SubSeq(Input.bi_list, 1, Covered)

\* a segment was emitted and the two strokes after it were dropped
C14_Witness ==
    /\ Completed /\ Input.xd_list = <<>>
    /\ Len(StoredSegments) = 1
    /\ Len(Input.bi_list) - Covered = 2

\* self.data.get('pivots', []): the pivots the chart and report consumers see
ConsumerPivots == Get(Stored, "pivots", <<>>)

\* C15: after a successful run the stored result holds the segments, the
\* divergences, the buy and sell points and the pivots computed in that run.
C15_ResultHoldsEveryStageOutput ==
    (Completed /\ last.ok) =>
        /\ StoredSegments = SegmentList(Input)
        /\ StoredDivergences = Divergences(Input)
        /\ {"buy_points", "sell_points"} \subseteq DOMAIN Stored
        /\ Len(ConsumerPivots) = Len(Auto.pivot_zones)
        /\ \A k \in 1..Len(ConsumerPivots) :
               /\ ConsumerPivots[k].high = Auto.pivot_zones[k].high
               /\ ConsumerPivots[k].low = Auto.pivot_zones[k].low

\* the same without the pivots
C15_ResultHoldsOtherStageOutputs ==
    (Completed /\ last.ok) =>
        /\ StoredSegments = SegmentList(Input)
        /\ StoredDivergences = Divergences(Input)
        /\ {"buy_points", "sell_points"} \subseteq DOMAIN Stored

\* the first divergence of the given type the code matches with fx, as k or 0
FirstMatch(fx, type) ==
    LET matches == {k \in 1..Len(StoredDivergences) :
                        /\ StoredDivergences[k].type = type
                        /\ NearDivergence(fx, StoredDivergences[k])}
    IN IF matches = {} THEN 0 ELSE SetMin(matches)

\* every first- and second-type point references the fractal it stands on
PointsKeepFractal(pts) ==
    \A k \in 1..Len(pts) :
        /\ pts[k].fractal # None
        /\ pts[k].fractal[1].dt = pts[k].date
        /\ pts[k].fractal[1].fx = pts[k].price

\* every second-type point references the first divergence that matched
PointsKeepDivergence(pts, second, type) ==
    \A k \in 1..Len(pts) :
        pts[k].type = second =>
            /\ "divergence" \in DOMAIN pts[k]
            /\ FirstMatch(pts[k].fractal[1], type) # 0
            /\ pts[k].divergence = StoredDivergences[FirstMatch(pts[k].fractal[1], type)]

\* C16: every first- or second-type point references its fractal, and every
\* Buy2/Sell2 references the divergence whose match reclassified it.
C16_PointsKeepTrigger ==
    Completed =>
        /\ PointsKeepFractal(FractalBuyPoints) /\ PointsKeepFractal(FractalSellPoints)
        /\ PointsKeepDivergence(FractalBuyPoints, "Buy2", "BottomDivergence")
        /\ PointsKeepDivergence(FractalSellPoints, "Sell2", "TopDivergence")

\* the part of it about the fractal alone
C16_PointsKeepFractalOnly ==
    Completed => PointsKeepFractal(FractalBuyPoints) /\ PointsKeepFractal(FractalSellPoints)

\* the points the classifier gives for the fractals, divergences and
\* segments of one input
PointsOf(c) ==
    ThirdPoints(FractalPointLoop(c.fx_list, Divergences(c), 1, <<>>, <<>>), SegmentList(c))

\* C17: after any sequence of runs on one analyzer, buy_points and
\* sell_points are exactly the points classified from the input of the most
\* recent run that analysed data: nothing of earlier runs is kept or added to.
C17_PointsReplacedOnReanalysis ==
    Auto.c # None =>
        /\ StoredBuyPoints = PointsOf(Input).buy_points
        /\ StoredSellPoints = PointsOf(Input).sell_points

\* a run completed on an analyzer that held more buy and sell points, of
\* another input, than the run classified
C17_Witness ==
    /\ Completed
    /\ last.before # None
    /\ last.before[1] # Input
    /\ Len(PointsOf(last.before[1]).buy_points) > Len(StoredBuyPoints)
    /\ Len(PointsOf(last.before[1]).sell_points) > Len(StoredSellPoints)
    /\ StoredBuyPoints # <<>>

\* the number of items of seq for which field has the given value
CountOf(seq, field, value) == Cardinality({k \in 1..Len(seq) : seq[k][field] = value})

\* C19: the stroke total is the Up count plus the Down count, the fractal
\* total is the Top count plus the Bottom count, and each count by kind is
\* the number of input items of that kind.
C19_CountsAddUp ==
    Reached =>
        LET strokes == Stored["strokes"]
            fractals == Stored["fractals"]
        IN /\ strokes.total_count = strokes.up_count + strokes.down_count
           /\ strokes.up_count = CountOf(Input.bi_list, "direction", "Up")
           /\ strokes.down_count = CountOf(Input.bi_list, "direction", "Down")
           /\ fractals.total_count = fractals.top_count + fractals.bottom_count
           /\ fractals.top_count = CountOf(Input.fx_list, "mark", "Top")
           /\ fractals.bottom_count = CountOf(Input.fx_list, "mark", "Bottom")

\* the statistics of an input with Up and Down strokes in unequal numbers
C19_Witness ==
    /\ Reached
    /\ Stored["strokes"].up_count = 1
    /\ Stored["strokes"].down_count = 3
    /\ Stored["fractals"].top_count = 1
    /\ Stored["fractals"].bottom_count = 4

\* C20: validate_kline_level accepts exactly the supported levels, the
\* default among them; the level of the MoyanAnalyzer and of every
\* AutoAnalyzer is a supported one, however they were constructed and
\* whatever switch_kline_level calls succeeded or raised since.
C20_LevelAlwaysAccepted ==
    /\ \A level \in LevelInputs \cup KLINE_LEVELS :
           validate_kline_level(level) <=> level \in get_supported_levels
    /\ DEFAULT_KLINE_LEVEL \in get_supported_levels
    /\ kline_level \in get_supported_levels
    /\ \A id \in DOMAIN heap : heap[id].kline_level \in get_supported_levels
    /\ \A level \in LevelInputs : NewAutoAnalyzer(level).kline_level \in get_supported_levels

\* switch_kline_level raised on an analyzer that is not at the default level
C20_Witness ==
    /\ last.op = "switch_kline_level" /\ last.error = "ValueError"
    /\ kline_level # DEFAULT_KLINE_LEVEL
    /\ Auto.kline_level = kline_level

\* the settings passed with the request hold a negative ratio or a window
\* that is not positive
OutOfRange(kwargs) ==
    \/ \E key \in DOMAIN kwargs \cap {"decay_threshold", "overlap_ratio"} : kwargs[key][1] < 0
    \/ \E key \in DOMAIN kwargs \cap {"proximity_window_days"} : kwargs[key] <= 0

\* C18: when a negative overlap ratio or decay threshold, or a proximity
\* window that is not positive, was supplied, the stage fails with
\* ConfigurationError and stores no output.
C18_BadThresholdRejected ==
    (Reached /\ OutOfRange(pending[1].kwargs)) =>
        /\ ~last.ok
        /\ last.error = "ConfigurationError"
        /\ DOMAIN Stored \cap {"divergences", "buy_points", "sell_points"} = {}
        /\ Auto.pivot_zones = <<>>

\* the start and end prices of the three strokes from index i on
EndpointPrices(i) ==
    UNION {{Input.bi_list[j].fx_a.fx, Input.bi_list[j].fx_b.fx} : j \in i..(i + 2)}

\* C21: low and high of every pivot zone are the least and the greatest of
\* the 6 endpoint prices of its 3 strokes, it starts at the first stroke's
\* start and ends at the third stroke's end; so low <= high and start <= end.
C21_PivotBoundsOfThreeStrokes ==
    Completed =>
        \A k \in 1..Len(Auto.pivot_zones) :
            LET zone == Auto.pivot_zones[k]
            IN \E i \in 1..(Len(Input.bi_list) - 2) :
                  /\ zone.start_time = Input.bi_list[i].fx_a.dt
                  /\ zone.end_time = Input.bi_list[i + 2].fx_b.dt
                  /\ zone.low \in EndpointPrices(i) /\ zone.high \in EndpointPrices(i)
                  /\ \A price \in EndpointPrices(i) : zone.low <= price /\ price <= zone.high
                  /\ zone.low <= zone.high
                  /\ zone.start_time <= zone.end_time

\* a zone whose high is the end price of its third stroke alone
C21_Witness ==
    /\ Completed
    /\ \E k \in 1..Len(Auto.pivot_zones) :
           LET zone == Auto.pivot_zones[k]
               i == PivotStart(zone)
           IN /\ Input.bi_list[i + 2].fx_b.fx = zone.high
              /\ \A j \in i..(i + 2) : Input.bi_list[j].fx_a.fx < zone.high
              /\ zone.low < zone.high

\* the indices below i of the strokes with the direction of stroke i
SameDirectionBefore(i) ==
    {j \in 1..(i - 1) : Input.bi_list[j].direction = Input.bi_list[i].direction}

\* the index of the stroke a divergence was emitted for
CurrentIndex(div) == CHOOSE i \in 1..Len(Input.bi_list) : Input.bi_list[i] = div.current_bi

\* C22: the reference stroke of every divergence is the stroke of the same
\* direction with the greatest index below the current stroke's (two below
\* on alternating input); a stroke without such a predecessor gives no
\* signal and no error.
C22_ReferenceIsNearestSameDirection ==
    Reached =>
        /\ Completed
        /\ \A k \in 1..Len(StoredDivergences) :
               LET div == StoredDivergences[k]
                   i == CurrentIndex(div)
               IN /\ SameDirectionBefore(i) # {}
                  /\ div.prev_bi = Input.bi_list[SetMax(SameDirectionBefore(i))]
                  /\ Alternating(Input.bi_list) => div.prev_bi = Input.bi_list[i - 2]
        /\ \A i \in 1..Len(Input.bi_list) :
               SameDirectionBefore(i) = {} => SignalsOf(i) = <<>>

\* a divergence whose reference is not the earliest stroke of its direction,
\* in a run with a later stroke that has no predecessor of its direction
C22_Witness ==
    /\ Completed
    /\ \E k \in 1..Len(StoredDivergences) :
           Cardinality(SameDirectionBefore(CurrentIndex(StoredDivergences[k]))) >= 2
    /\ \E i \in 3..Len(Input.bi_list) : SameDirectionBefore(i) = {}

\* the fallback builder ran on alternating strokes
FallbackOnAlternating ==
    Completed /\ Input.xd_list = <<>> /\ Alternating(Input.bi_list)

\* C23: on n >= 3 alternating strokes the fallback builder gives floor(n/3)
\* segments, the k-th being the k-th group of 3 strokes, and consecutive
\* segments have opposite directions; 3 strokes give one segment of 3.
C23_AlternatingGivesTriples ==
    (FallbackOnAlternating /\ Len(Input.bi_list) >= 3) =>
        /\ Len(StoredSegments) = Len(Input.bi_list) \div 3
        /\ \A k \in 1..Len(StoredSegments) :
               StoredSegments[k] = SubSeq(Input.bi_list, 3 * k - 2, 3 * k)
        /\ \A k \in 1..(Len(StoredSegments) - 1) :
               StoredSegments[k][1].direction # StoredSegments[k + 1][1].direction

\* two segments were built from alternating strokes
C23_Witness ==
    /\ FallbackOnAlternating
    /\ Len(StoredSegments) = 2
    /\ StoredSegments[1][1].direction = "Down"

\* the number of third-type points stored
ThirdPointCount == Len(ThirdBuyPoints) + Len(ThirdSellPoints)

\* C24: with the fallback builder on n alternating strokes a third-type
\* point is emitted iff n >= 6; no run emits more than one third-type point.
C24_ThirdPointFromSixStrokes ==
    /\ FallbackOnAlternating => (ThirdPointCount >= 1 <=> Len(Input.bi_list) >= 6)
    /\ Completed => ThirdPointCount <= 1

\* six alternating strokes gave a Sell3, and no Buy3
C24_Witness ==
    /\ FallbackOnAlternating
    /\ Len(Input.bi_list) = 6
    /\ Len(ThirdSellPoints) = 1 /\ ThirdBuyPoints = <<>>

\* the stroke at (0-based) index 3 * floor(n / 3) - 1
LastCoveredStroke == Input.bi_list[3 * (Len(Input.bi_list) \div 3)]

\* C25: with the fallback builder on alternating strokes the third-type
\* point is at the end of the stroke at index 3 * floor(n/3) - 1: a Buy3 at
\* the end of an Up stroke (a top), a Sell3 at the end of a Down stroke (a
\* bottom); at most 2 strokes follow it.
C25_ThirdPointAtLastCoveredStroke ==
    (FallbackOnAlternating /\ ThirdPointCount >= 1) =>
        LET point == (ThirdBuyPoints \o ThirdSellPoints)[1]
        IN /\ point.date = LastCoveredStroke.fx_b.dt
           /\ point.price = LastCoveredStroke.fx_b.fx
           /\ LastCoveredStroke.direction = Last(StoredSegments)[1].direction
           /\ point.type = "Buy3" =>
                  LastCoveredStroke.direction = "Up" /\ LastCoveredStroke.fx_b.mark = "Top"
           /\ point.type = "Sell3" =>
                  LastCoveredStroke.direction = "Down" /\ LastCoveredStroke.fx_b.mark = "Bottom"
           /\ Len(Input.bi_list) - 3 * (Len(Input.bi_list) \div 3) <= 2

\* a Buy3 at a top that a later stroke follows
C25_Witness ==
    /\ FallbackOnAlternating
    /\ Len(ThirdBuyPoints) = 1
    /\ ThirdBuyPoints[1].date < Last(Input.bi_list).fx_b.dt

\* the cache key of the analyze call a step has made
RequestKey(call) == CacheKey(call.request.stock_code, kline_level, call.request.days)

\* C26: an analyze call without force_refresh whose key is cached returns
\* the cached result and does not run the pipeline; the entries stay cached
\* through analyze calls and switches that keep the level; with
\* force_refresh the pipeline runs and, on success, the new result replaces
\* the entry of the key.
C26_CacheHitUnlessForced ==
    [][ /\ last'.op = "analyze" =>
               /\ (RequestKey(last') \in DOMAIN cache /\ ~last'.request.force_refresh) =>
                      /\ last'.hit
                      /\ last'.result = cache[RequestKey(last')]
                      /\ heap'[auto_ref] = heap[auto_ref]
                      /\ cache' = cache
               /\ last'.request.force_refresh =>
                      /\ ~last'.hit
                      /\ last'.ok =>
                             /\ last'.result.success
                             /\ RequestKey(last') \in DOMAIN cache'
                             /\ cache'[RequestKey(last')] = last'.result
               /\ \A key \in DOMAIN cache \ {RequestKey(last')} :
                      key \in DOMAIN cache' /\ cache'[key] = cache[key]
               /\ RequestKey(last') \in DOMAIN cache => RequestKey(last') \in DOMAIN cache'
        /\ (last'.op = "switch_kline_level" /\ kline_level' = kline_level) => cache' = cache
      ]_vars

\* a cached result of one stock was returned by an analyzer that has
\* analysed the other stock since
C26_Witness ==
    /\ last.op = "analyze" /\ last.hit
    /\ last.result.success
    /\ ~last.request.force_refresh
    /\ Stored["stock_code"] # last.request.stock_code

\* what a reader of the cache sees: every entry with the analysis_result
\* dict its 'data' refers to
CacheContents(entries, objects) ==
    [key \in DOMAIN entries |->
        [entries[key] EXCEPT !.data = objects[entries[key].data[1]].analysis_result]]

FailedAnalyze(call) == call.op = "analyze" /\ ~call.ok

\* C27: an analyze call whose pipeline fails returns a result with
\* success = False and data = None and leaves the cache as it was: no entry
\* added, every entry kept with what it held.
C27_FailedAnalyzeLeavesCache ==
    [][ FailedAnalyze(last') =>
            /\ ~last'.result.success
            /\ last'.result.data = None
            /\ DOMAIN cache' = DOMAIN cache
            /\ CacheContents(cache', heap') = CacheContents(cache, heap)
      ]_vars

\* the same, comparing the entries by the identity of the dict they refer to
C27_FailedAnalyzeKeepsEntries ==
    [][ FailedAnalyze(last') =>
            /\ ~last'.result.success
            /\ last'.result.data = None
            /\ cache' = cache
      ]_vars

\* C28: switch_kline_level with an unsupported level raises ValueError and
\* leaves the level, the inner analyzer and the cache as they were; with the
\* current level it changes nothing; with another supported level it sets
\* the level and empties the cache, so every cached result is one of the
\* current level.
C28_SwitchFrame ==
    [][ /\ last'.op = "switch_kline_level" =>
               IF last'.new_level \notin get_supported_levels
               THEN /\ last'.error = "ValueError"
                    /\ kline_level' = kline_level /\ auto_ref' = auto_ref
                    /\ heap' = heap /\ cache' = cache
               ELSE IF last'.new_level = kline_level
               THEN /\ last'.ok
                    /\ kline_level' = kline_level /\ auto_ref' = auto_ref
                    /\ heap' = heap /\ cache' = cache
               ELSE /\ last'.ok
                    /\ kline_level' = last'.new_level
                    /\ heap'[auto_ref'] = NewAutoAnalyzer(last'.new_level)
                    /\ cache' = EmptyDict
        /\ \A key \in DOMAIN cache' : cache'[key].kline_level = kline_level'
      ]_vars

\* a switch to another level emptied a cache that held a result, which a
\* caller still holds
C28_Witness ==
    /\ last.op = "switch_kline_level" /\ last.ok
    /\ last.new_level = kline_level
    /\ cache = EmptyDict
    /\ returned # None /\ returned[1].kline_level # kline_level

\* the position of a source in the order chosen for the level of the call
PositionOf(name) == CHOOSE i \in 1..Len(attempt.ordered) : attempt.ordered[i] = name

\* the sources the loop reached: all of them, or those up to the last one invoked
\* when the call stopped there
ReachedSources ==
    IF attempt.invoked # <<>> /\ (attempt.result[1].name # "none" \/ ~manager.fallback_enabled)
    THEN {attempt.ordered[i] : i \in 1..PositionOf(Last(attempt.invoked))}
    ELSE Member(attempt.ordered)

C29_WitnessNoFallback ==
    /\ attempt # None /\ attempt.pc = "done"
    /\ ~manager.fallback_enabled
    /\ Len(attempt.invoked) = 1
    /\ attempt.result[1].name = "none"
    /\ \E name \in Member(attempt.ordered) \ Member(attempt.invoked) : manager.available[name]

\* the threads inside the with block of update_stock_cache
Inside(ts) == {t \in Threads : ts[t].pc \in {"locked", "fetching", "fetched"}}

\* C30: at most one thread at a time is inside the locked block of
\* update_stock_cache; once a refresh has stored data, a call whose TTL check
\* reads a time at most cache_ttl seconds after the time that refresh read
\* returns without fetching; a refresh whose fetch returns no data leaves
\* last_update and the cache as they were.
C30_OneRefreshPerTtl ==
    [][ /\ Cardinality(Inside(threads')) <= 1
        /\ \A t \in Threads :
               /\ threads'[t].pc \in {"fetching", "fetched"} /\ refreshed' # None =>
                      threads'[t].current_time[1] - refreshed'[1].read > cache_ttl
               /\ threads[t].pc = "locked" /\ threads'[t].pc # "locked" /\ refreshed # None
                  /\ now - refreshed[1].read <= cache_ttl =>
                      /\ threads'[t].pc = "idle"
                      /\ engine'.last_update = engine.last_update
                      /\ engine'.stock_cache = engine.stock_cache
               /\ threads[t].pc = "fetched" /\ threads'[t].pc = "idle" =>
                      IF Truthy(threads[t].new_data[1])
                      THEN /\ engine'.last_update = threads[t].current_time[1]
                           /\ \A code \in DOMAIN threads[t].new_data[1] :
                                  Get(engine'.stock_cache, code, None) = threads[t].new_data[1][code]
                      ELSE /\ engine'.last_update = engine.last_update
                           /\ engine'.stock_cache = engine.stock_cache
      ]_vars

\* exactly cache_ttl seconds after the time a refresh read, a call has
\* returned without fetching while another thread waits for the lock
C30_Witness ==
    /\ refreshed # None /\ refreshed[1].kept
    /\ now - refreshed[1].read = cache_ttl
    /\ engine.lock = None
    /\ \E t \in Threads : threads[t].pc = "waiting"

\* a refresh whose fetch took time and returned no data is about to leave,
\* after an earlier refresh stored data, while another thread waits
C30_WitnessNoData ==
    /\ refreshed # None
    /\ \E t, u \in Threads :
           /\ threads[t].pc = "fetched" /\ ~Truthy(threads[t].new_data[1])
           /\ now > threads[t].current_time[1]
           /\ threads[u].pc = "waiting"

====
